---- MODULE Spec2Model ----
(***************************************************************************)
(* The AlibabaCloud-SLB network plugin of kruise-game                      *)
(* (cloudprovider/alibabacloud/slb.go): the per-load-balancer port cache   *)
(* (initLbCache, allocate, deAllocate) and the pod hooks that drive it.    *)
(***************************************************************************)
EXTENDS Integers, Sequences, FiniteSets, TLC

\* ------------------------------------------------------------------ bounds

\* SlbPlugin.minPort / SlbPlugin.maxPort: the configured range [minPort, maxPort).
MinPort == 1

RangeSize == 2

MaxPort == MinPort + RangeSize

\* The ports a caller passes to deAllocate: 0 (Go's zero value), the range and
\* maxPort itself.
PortUniverse == 0..MaxPort

LbIds == {"lb1", "lb2"}

\* The goroutines of the controller's worker pool that call into the cache.
Workers == {"w1", "w2"}

Pods == {"p1", "p2"}

\* The Services of the cluster: one per pod (named after it) and one that is
\* not the plugin's own.
SvcNames == Pods \cup {"ext"}

SvcOrder == <<"ext", "p1", "p2">>

\* The largest count a direct allocate call asks for: one more than the range
\* holds, so that exhaustion happens.
MaxCount == RangeSize + 1

\* ------------------------------------------------------------------ state

VARIABLES
    phase,    \* "new": constructed, Init not yet done; "running"; "panicked"
    cache,    \* SlbPlugin.cache: lbId -> (port -> allocated); DOMAIN = non-nil tables
    svcs,     \* the Services of the cluster, by name (= pod name)
    podAnn,   \* pod.Annotations[allocatedPortsKey], as the ports it lists
    live,     \* history: per lbId, ports handed out by allocate and not deAllocated since
    last,     \* the last step: the call made, its arguments and what it returned
    pc,       \* per worker goroutine: where it is in its allocate / deAllocate call
    mutex,    \* SlbPlugin.mutex: the worker holding it, or ""
    wk,       \* per worker: the call's arguments and locals
    ov,       \* history: per worker, whether its current call overlapped the other's
    ipc,      \* where the goroutine running SlbPlugin.Init is
    netStatus,\* per pod: the NetworkStatus recorded on it
    disabled  \* per pod: networkManager.GetNetworkDisabled()

conc == <<pc, mutex, wk, ov, ipc>>

\* What the network manager reads from the pod.
podNet == <<netStatus, disabled>>

vars == <<phase, cache, svcs, podAnn, live, last, pc, mutex, wk, ov, ipc,
          netStatus, disabled>>

\* ------------------------------------------------------------------ helpers

\* m[k] = v on a Go map: the key is added when it is not there.
Put(m, k, v) == [x \in (DOMAIN m) \cup {k} |-> IF x = k THEN v ELSE m[x]]

Range(s) == {s[i] : i \in 1..Len(s)}

\* make(portAllocated); for i := minPort; i < maxPort; i++ { m[i] = false }
NewTable == [p \in MinPort..(MaxPort - 1) |-> FALSE]

\* parseLbConfig on the pod's network configuration: the lbId and the number
\* of target ports.
PodLb(p) == "lb1"

\* parseLbConfig: the target ports and protocols of "7777" and "7777/UDP,8080".
TargetPorts(p) == IF p = "p1" THEN <<7777>> ELSE <<7777, 8080>>

Protocols(p) == IF p = "p1" THEN <<"TCP">> ELSE <<"UDP", "TCP">>

TargetCount(p) == Len(TargetPorts(p))

\* parseLbConfig: the fixed-identity flag of the pod's configuration.
IsFixed(p) == p = "p2"

\* pod.Status.PodIP
PodIP(p) == IF p = "p1" THEN "10.0.0.1" ELSE "10.0.0.2"

NoWork == [op |-> "none", lb |-> "", num |-> 0, port |-> 0, ports |-> <<>>]

ConcIdle ==
    /\ pc = [w \in Workers |-> "idle"]
    /\ mutex = ""
    /\ wk = [w \in Workers |-> NoWork]
    /\ ov = [w \in Workers |-> FALSE]
    /\ ipc = "idle"

\* GetNetworkStatus returns nil: the pod has no NetworkStatus recorded.
NoStatus == [state |-> "nil", internal |-> <<>>, external |-> <<>>]

\* A pod as it is created: no NetworkStatus recorded, the network not disabled.
PodsFresh ==
    /\ netStatus = [p \in Pods |-> NoStatus]
    /\ disabled = [p \in Pods |-> FALSE]

NoCall == [op |-> "none", pod |-> "", lb |-> "", num |-> 0, port |-> 0,
           allocCalled |-> FALSE, ports |-> <<>>, apiFail |-> FALSE,
           err |-> "none", calls |-> {}]

\* getPorts(svc.Spec.Ports)
getPorts(svc) == svc.ports

\* The ports of lb's table that are marked allocated.
Allocated(c, lb) == IF lb \in DOMAIN c THEN {p \in DOMAIN c[lb] : c[lb][p]} ELSE {}

\* ------------------------------------------------------------------ the cache

\* initLbCache, lines 96-100: mark the in-range ports of one Service.
RECURSIVE markPorts(_, _, _)
markPorts(tbl, ports, i) ==
    IF i > Len(ports) THEN tbl
    ELSE markPorts(IF ports[i] <= MaxPort /\ ports[i] >= MinPort
                   THEN Put(tbl, ports[i], TRUE) ELSE tbl,
                   ports, i + 1)

\* initLbCache, the loop over svcList.
RECURSIVE initLbCacheFrom(_, _, _)
initLbCacheFrom(svcList, i, newCache) ==
    IF i > Len(svcList) THEN newCache
    ELSE LET svc == svcList[i]
             lbId == svc.label
         IN  IF lbId # "" /\ svc.type = "LoadBalancer"
             THEN LET tbl == IF lbId \in DOMAIN newCache THEN newCache[lbId]
                             ELSE NewTable
                  IN  initLbCacheFrom(svcList, i + 1,
                          Put(newCache, lbId, markPorts(tbl, getPorts(svc), 1)))
             ELSE initLbCacheFrom(svcList, i + 1, newCache)

initLbCache(svcList) == initLbCacheFrom(svcList, 1, <<>>)

\* c.List(ctx, svcList): the Services that exist, as a list.
RECURSIVE SvcListFrom(_, _)
SvcListFrom(s, i) ==
    IF i > Len(SvcOrder) THEN <<>>
    ELSE (IF SvcOrder[i] \in DOMAIN s THEN <<s[SvcOrder[i]]>> ELSE <<>>)
         \o SvcListFrom(s, i + 1)

\* allocate, the for loop with `left` iterations to go. Ranging over a Go map
\* visits the keys in any order, so any free key may be the one picked; when
\* no key is free, port keeps its zero value.
RECURSIVE allocateLoop(_, _, _, _)
allocateLoop(c, lbId, ports, left) ==
    IF left = 0 THEN {[cache |-> c, ports |-> ports]}
    ELSE LET c1 == IF lbId \in DOMAIN c THEN c ELSE Put(c, lbId, NewTable)
             free == {p \in DOMAIN c1[lbId] : ~c1[lbId][p]}
             picks == IF free = {} THEN {0} ELSE free
         IN  UNION {allocateLoop(Put(c1, lbId, Put(c1[lbId], p, TRUE)), lbId,
                                 Append(ports, p), left - 1) : p \in picks}

\* allocate(lbId, num): every (cache after, ports returned) the call can end in.
allocate(c, lbId, num) == allocateLoop(c, lbId, <<>>, num)

\* deAllocate(lbId, port): s.cache[lbId][port] = false. Assigning into the nil
\* map of an lbId without a table panics.
deAllocate(c, lbId, port) ==
    IF lbId \in DOMAIN c
    THEN [cache |-> Put(c, lbId, Put(c[lbId], port, FALSE)), panic |-> FALSE]
    ELSE [cache |-> c, panic |-> TRUE]

\* OnPodDeleted, lines 201-203: deAllocate each port of the Service in turn.
RECURSIVE deAllocateAll(_, _, _, _)
deAllocateAll(c, lbId, ports, i) ==
    IF i > Len(ports) THEN [cache |-> c, panic |-> FALSE]
    ELSE LET r == deAllocate(c, lbId, ports[i])
         IN  IF r.panic THEN r ELSE deAllocateAll(r.cache, lbId, ports, i + 1)

\* ------------------------------------------------------------------ actions

\* No Service exists yet, the plugin is constructed and Init has not run.
Init ==
    /\ phase = "new"
    /\ cache = <<>>
    /\ svcs = <<>>
    /\ podAnn = [p \in Pods |-> <<>>]
    /\ live = [lb \in LbIds |-> {}]
    /\ last = NoCall
    /\ ConcIdle
    /\ PodsFresh

\* SlbPlugin.Init on a fresh plugin value (a start or a restart of the
\* process): list the Services and rebuild the cache from them.
PluginInit(listOk) ==
    /\ IF listOk
       THEN /\ cache' = initLbCache(SvcListFrom(svcs, 1))
            /\ phase' = "running"
       ELSE /\ cache' = <<>>
            /\ phase' = "new"
    /\ live' = [lb \in LbIds |-> {}]
    /\ last' = [NoCall EXCEPT !.op = "Init", !.apiFail = ~listOk,
                              !.err = IF listOk THEN "none" ELSE "error"]
    /\ UNCHANGED <<svcs, podAnn>>
    /\ UNCHANGED conc
    /\ UNCHANGED podNet

\* A direct call of allocate(lbId, num).
Allocate(lbId, num) ==
    /\ phase = "running"
    /\ \E r \in allocate(cache, lbId, num) :
        /\ cache' = r.cache
        /\ live' = [live EXCEPT ![lbId] = @ \cup Range(r.ports)]
        /\ last' = [NoCall EXCEPT !.op = "allocate", !.lb = lbId, !.num = num,
                                  !.allocCalled = TRUE, !.ports = r.ports]
    /\ UNCHANGED <<phase, svcs, podAnn>>
    /\ UNCHANGED conc
    /\ UNCHANGED podNet

\* A direct call of deAllocate(lbId, port).
Deallocate(lbId, port) ==
    /\ phase = "running"
    /\ LET r == deAllocate(cache, lbId, port)
       IN  /\ cache' = r.cache
           /\ phase' = IF r.panic THEN "panicked" ELSE phase
           /\ live' = IF r.panic THEN live
                      ELSE [live EXCEPT ![lbId] = @ \ {port}]
           /\ last' = [NoCall EXCEPT !.op = "deAllocate", !.lb = lbId,
                                     !.port = port,
                                     !.err = IF r.panic THEN "panic" ELSE "none"]
    /\ UNCHANGED <<svcs, podAnn>>
    /\ UNCHANGED conc
    /\ UNCHANGED podNet

\* createSvc, lines 291-300: the ports of the Service to create. Ports recorded
\* in the pod's annotation are used as they are; otherwise allocate is called
\* and its result recorded in the annotation.
createSvcPorts(c, p) ==
    IF podAnn[p] # <<>>
    THEN {[cache |-> c, ports |-> podAnn[p], allocCalled |-> FALSE]}
    ELSE {[cache |-> r.cache, ports |-> r.ports, allocCalled |-> TRUE] :
             r \in allocate(c, PodLb(p), TargetCount(p))}

\* getSvcOwnerReference: the pod itself, or under fixed identity the
\* GameServerSet the pod belongs to.
getSvcOwnerReference(p) == IF IsFixed(p) THEN "GameServerSet" ELSE "Pod"

\* createSvc, lines 302-330: the Service built for pod p from `ports`.
createSvc(p, ports) ==
    [lbAnn |-> PodLb(p), label |-> "", type |-> "LoadBalancer",
     ports |-> SubSeq(ports, 1, TargetCount(p)),
     targetPorts |-> TargetPorts(p), protocols |-> Protocols(p),
     owner |-> getSvcOwnerReference(p), ingress |-> <<>>]

\* The host applies the pod a hook returns, with the annotation createSvc wrote
\* on it, when the hook returned no error; after an error it calls the hook
\* again later with the pod as it is stored.
HostStores(ok) == ok

\* OnPodAdded(pod): createSvc, then c.Create. createOk: the API call itself
\* goes through (it still fails when a Service of that name exists). The host
\* stores the returned pod, with its annotation, when the hook succeeded.
OnPodAdded(p, createOk) ==
    /\ phase = "running"
    /\ UNCHANGED conc
    /\ UNCHANGED podNet
    /\ \E r \in createSvcPorts(cache, p) :
        LET ok == createOk /\ p \notin DOMAIN svcs
        IN  /\ cache' = r.cache
            /\ live' = IF r.allocCalled
                       THEN [live EXCEPT ![PodLb(p)] = @ \cup Range(r.ports)]
                       ELSE live
            /\ IF Len(r.ports) < TargetCount(p)
               THEN \* ports[i]: index out of range
                    /\ phase' = "panicked"
                    /\ UNCHANGED <<svcs, podAnn>>
                    /\ last' = [NoCall EXCEPT !.op = "OnPodAdded", !.pod = p,
                                   !.lb = PodLb(p), !.num = TargetCount(p),
                                   !.allocCalled = r.allocCalled,
                                   !.ports = r.ports, !.err = "panic"]
               ELSE /\ phase' = phase
                    /\ svcs' = IF ok THEN Put(svcs, p, createSvc(p, r.ports))
                               ELSE svcs
                    /\ podAnn' = IF HostStores(ok)
                                 THEN [podAnn EXCEPT ![p] = r.ports]
                                 ELSE podAnn
                    /\ last' = [NoCall EXCEPT !.op = "OnPodAdded", !.pod = p,
                                   !.lb = PodLb(p), !.num = TargetCount(p),
                                   !.allocCalled = r.allocCalled,
                                   !.ports = r.ports, !.apiFail = ~createOk,
                                   !.calls = {"Create"},
                                   !.err = IF ok THEN "none" ELSE "ApiCallError"]

\* OnPodDeleted as it would be if a failed lookup were taken for "already
\* cleaned up": the ports of the pod's annotation are released and nil returned.
OnPodDeleted_ReleaseOnMiss(p, getOk) ==
    /\ phase = "running"
    /\ LET found == getOk /\ p \in DOMAIN svcs
           lbId == IF found THEN svcs[p].lbAnn ELSE PodLb(p)
           ports == IF found THEN getPorts(svcs[p]) ELSE podAnn[p]
           r == deAllocateAll(cache, lbId, ports, 1)
       IN  /\ cache' = r.cache
           /\ phase' = IF r.panic THEN "panicked" ELSE phase
           /\ live' = IF r.panic THEN live
                      ELSE [live EXCEPT ![lbId] = @ \ Range(ports)]
           /\ last' = [NoCall EXCEPT !.op = "OnPodDeleted", !.pod = p,
                                     !.calls = {"Get"},
                                     !.lb = lbId, !.ports = ports,
                                     !.apiFail = ~getOk,
                                     !.err = IF r.panic THEN "panic" ELSE "none"]
    /\ UNCHANGED <<svcs, podAnn>>
    /\ UNCHANGED conc
    /\ UNCHANGED podNet

\* OnPodDeleted(pod): c.Get the Service named after the pod, then deAllocate
\* each of its ports under the lbId of its annotation.
OnPodDeleted(p, getOk) ==
    /\ phase = "running"
    /\ IF ~getOk \/ p \notin DOMAIN svcs
       THEN /\ last' = [NoCall EXCEPT !.op = "OnPodDeleted", !.pod = p,
                                     !.calls = {"Get"},
                                      !.apiFail = ~getOk,
                                      !.err = "ApiCallError"]
            /\ UNCHANGED <<phase, cache, live>>
       ELSE LET svc == svcs[p]
                r == deAllocateAll(cache, svc.lbAnn, getPorts(svc), 1)
            IN  /\ cache' = r.cache
                /\ phase' = IF r.panic THEN "panicked" ELSE phase
                /\ live' = IF r.panic THEN live
                           ELSE [live EXCEPT ![svc.lbAnn] = @ \ Range(getPorts(svc))]
                /\ last' = [NoCall EXCEPT !.op = "OnPodDeleted", !.pod = p,
                                     !.calls = {"Get"},
                                          !.lb = svc.lbAnn,
                                          !.ports = getPorts(svc),
                                          !.err = IF r.panic THEN "panic"
                                                  ELSE "none"]
    /\ UNCHANGED <<svcs, podAnn>>
    /\ UNCHANGED conc
    /\ UNCHANGED podNet

\* The cloud controller labels a Service with the id of the SLB it bound.
SvcLabelled(n) ==
    /\ n \in DOMAIN svcs
    /\ svcs[n].label = ""
    /\ svcs' = [svcs EXCEPT ![n].label = svcs[n].lbAnn]
    /\ last' = [NoCall EXCEPT !.op = "SvcLabelled"]
    /\ UNCHANGED <<phase, cache, podAnn, live>>
    /\ UNCHANGED conc
    /\ UNCHANGED podNet

\* A Service is deleted: by the garbage collector once its owner is gone, or
\* by hand.
SvcDeleted(n) ==
    /\ n \in DOMAIN svcs
    /\ svcs' = [m \in (DOMAIN svcs) \ {n} |-> svcs[m]]
    /\ last' = [NoCall EXCEPT !.op = "SvcDeleted"]
    /\ UNCHANGED <<phase, cache, podAnn, live>>
    /\ UNCHANGED conc
    /\ UNCHANGED podNet

\* The pod is replaced by a new pod of the same name without the annotation
\* and without a NetworkStatus.
PodRecreated(p) ==
    /\ podAnn[p] # <<>> \/ netStatus[p] # NoStatus
    /\ podAnn' = [podAnn EXCEPT ![p] = <<>>]
    /\ netStatus' = [netStatus EXCEPT ![p] = NoStatus]
    /\ last' = [NoCall EXCEPT !.op = "PodRecreated", !.pod = p]
    /\ UNCHANGED <<phase, cache, svcs, live, disabled>>
    /\ UNCHANGED conc

\* Under fixed identity the pod is replaced by a new pod of the same name that
\* carries the allocated-ports annotation of the old one; its NetworkStatus
\* starts empty.
PodReplaced(p) ==
    /\ IsFixed(p)
    /\ netStatus[p] # NoStatus
    /\ netStatus' = [netStatus EXCEPT ![p] = NoStatus]
    /\ last' = [NoCall EXCEPT !.op = "PodReplaced", !.pod = p]
    /\ UNCHANGED <<phase, cache, svcs, podAnn, live, disabled>>
    /\ UNCHANGED conc

\* The cloud controller reports the addresses of the load balancer on the
\* Service, or takes them away.
Ingresses == {<<>>, <<"47.0.0.1">>, <<"47.0.0.2", "47.0.0.1">>}

SvcIngress(n, ing) ==
    /\ n \in DOMAIN svcs
    /\ svcs[n].ingress # ing
    /\ svcs' = [svcs EXCEPT ![n].ingress = ing]
    /\ last' = [NoCall EXCEPT !.op = "SvcIngress"]
    /\ UNCHANGED <<phase, cache, podAnn, live>>
    /\ UNCHANGED conc
    /\ UNCHANGED podNet

\* The GameServer's networkDisabled flag is switched.
NetworkToggled(p) ==
    /\ disabled' = [disabled EXCEPT ![p] = ~@]
    /\ last' = [NoCall EXCEPT !.op = "NetworkToggled", !.pod = p]
    /\ UNCHANGED <<phase, cache, svcs, podAnn, live, netStatus>>
    /\ UNCHANGED conc

\* The NetworkStatus OnPodUpdated starts from when none is recorded.
NotReadyStatus ==
    [state |-> "NotReady", internal |-> <<>>, external |-> <<>>]

\* The address pairs of the "network ready" branch: for each port entry of the
\* Service, the pod's address with the target port and the first ingress
\* address with the Service port, both under the entry's protocol and named
\* after the target port.
InternalAddresses(p, svc) ==
    [i \in 1..Len(svc.ports) |->
        [ip |-> PodIP(p), port |-> svc.targetPorts[i],
         protocol |-> svc.protocols[i], name |-> svc.targetPorts[i]]]

\* ExternalAddresses as it would be if the external address carried the
\* target port instead of the Service port.
ExternalAddresses_TargetPort(svc) ==
    [i \in 1..Len(svc.ports) |->
        [ip |-> svc.ingress[1], port |-> svc.targetPorts[i],
         protocol |-> svc.protocols[i], name |-> svc.targetPorts[i]]]

ExternalAddresses(svc) ==
    [i \in 1..Len(svc.ports) |->
        [ip |-> svc.ingress[1], port |-> svc.ports[i],
         protocol |-> svc.protocols[i], name |-> svc.targetPorts[i]]]

\* What an OnPodUpdated call on pod p leaves in `last`.
UpdDone(p, calls, err) ==
    [NoCall EXCEPT !.op = "OnPodUpdated", !.pod = p, !.lb = PodLb(p),
                   !.calls = calls, !.err = err]

\* UpdNoStatus as it would be if the hook looked the Service up before
\* returning.
UpdNoStatus_Lookup(p) ==
    /\ netStatus' = [netStatus EXCEPT ![p] = NotReadyStatus]
    /\ last' = UpdDone(p, {"Get"}, "none")
    /\ UNCHANGED <<phase, cache, svcs, podAnn, live>>

\* OnPodUpdated, lines 113-121: no NetworkStatus recorded. NotReady is
\* written and the hook returns.
UpdNoStatus(p) ==
    /\ netStatus' = [netStatus EXCEPT ![p] = NotReadyStatus]
    /\ last' = UpdDone(p, {}, "none")
    /\ UNCHANGED <<phase, cache, svcs, podAnn, live>>

\* OnPodUpdated, lines 127-134: c.Get failed for another reason than
\* "not found".
UpdGetFailed(p) ==
    /\ last' = [UpdDone(p, {"Get"}, "ApiCallError") EXCEPT !.apiFail = TRUE]
    /\ UNCHANGED <<phase, cache, svcs, podAnn, live, netStatus>>

\* OnPodUpdated, lines 129-131: the Service is not found; createSvc, then
\* c.Create. The host stores the returned pod when the hook succeeded.
UpdSelfHeal(p, apiOk) ==
    /\ UNCHANGED netStatus
    /\ \E r \in createSvcPorts(cache, p) :
        /\ cache' = r.cache
        /\ live' = IF r.allocCalled
                   THEN [live EXCEPT ![PodLb(p)] = @ \cup Range(r.ports)]
                   ELSE live
        /\ IF Len(r.ports) < TargetCount(p)
           THEN \* ports[i]: index out of range
                /\ phase' = "panicked"
                /\ UNCHANGED <<svcs, podAnn>>
                /\ last' = [UpdDone(p, {"Get"}, "panic") EXCEPT
                               !.num = TargetCount(p),
                               !.allocCalled = r.allocCalled,
                               !.ports = r.ports]
           ELSE /\ phase' = phase
                /\ svcs' = IF apiOk THEN Put(svcs, p, createSvc(p, r.ports))
                           ELSE svcs
                /\ podAnn' = IF HostStores(apiOk)
                             THEN [podAnn EXCEPT ![p] = r.ports]
                             ELSE podAnn
                /\ last' = [UpdDone(p, {"Get", "Create"},
                                    IF apiOk THEN "none" ELSE "ApiCallError")
                            EXCEPT !.num = TargetCount(p),
                                   !.allocCalled = r.allocCalled,
                                   !.ports = r.ports,
                                   !.apiFail = ~apiOk]

\* UpdSwitchType as it would be if switching the type also reset the recorded
\* status to NotReady.
UpdSwitchType_ResetsStatus(p, type, apiOk) ==
    /\ svcs' = IF apiOk THEN [svcs EXCEPT ![p].type = type] ELSE svcs
    /\ netStatus' = [netStatus EXCEPT ![p].state = "NotReady"]
    /\ last' = [UpdDone(p, {"Get", "Update"},
                        IF apiOk THEN "none" ELSE "ApiCallError")
                EXCEPT !.apiFail = ~apiOk]
    /\ UNCHANGED <<phase, cache, podAnn, live>>

\* UpdSwitchType as it would be if switching the Service to ClusterIP also
\* released its ports in the cache.
UpdSwitchType_ReleasesPorts(p, type, apiOk) ==
    /\ svcs' = IF apiOk THEN [svcs EXCEPT ![p].type = type] ELSE svcs
    /\ cache' = IF type = "ClusterIP"
                THEN deAllocateAll(cache, svcs[p].lbAnn, getPorts(svcs[p]), 1).cache
                ELSE cache
    /\ last' = [UpdDone(p, {"Get", "Update"},
                        IF apiOk THEN "none" ELSE "ApiCallError")
                EXCEPT !.apiFail = ~apiOk]
    /\ UNCHANGED <<phase, podAnn, live, netStatus>>

\* OnPodUpdated, lines 136-146: the Service's type disagrees with the
\* networkDisabled flag; the type is switched with c.Update and the hook
\* returns.
UpdSwitchType(p, type, apiOk) ==
    /\ svcs' = IF apiOk THEN [svcs EXCEPT ![p].type = type] ELSE svcs
    /\ last' = [UpdDone(p, {"Get", "Update"},
                        IF apiOk THEN "none" ELSE "ApiCallError")
                EXCEPT !.apiFail = ~apiOk]
    /\ UNCHANGED <<phase, cache, podAnn, live, netStatus>>

\* UpdNotReady as it would be if a Service without ingress left the recorded
\* status alone.
UpdNotReady_Keep(p) ==
    /\ last' = UpdDone(p, {"Get"}, "none")
    /\ UNCHANGED <<phase, cache, svcs, podAnn, live, netStatus>>

\* OnPodUpdated, lines 148-153: the Service has no ingress. The recorded
\* status is set to NotReady, its addresses left as they are.
UpdNotReady(p) ==
    /\ netStatus' = [netStatus EXCEPT ![p].state = "NotReady"]
    /\ last' = UpdDone(p, {"Get"}, "none")
    /\ UNCHANGED <<phase, cache, svcs, podAnn, live>>

\* OnPodUpdated, lines 155-188: the addresses are rebuilt from the Service
\* and the status set to Ready.
UpdReady(p) ==
    /\ netStatus' = [netStatus EXCEPT ![p] =
                       [state |-> "Ready",
                        internal |-> InternalAddresses(p, svcs[p]),
                        external |-> ExternalAddresses(svcs[p])]]
    /\ last' = UpdDone(p, {"Get"}, "none")
    /\ UNCHANGED <<phase, cache, svcs, podAnn, live>>

\* OnPodUpdated(pod). getOk: c.Get goes through; apiOk: the c.Create or
\* c.Update that follows goes through. networkManager.UpdateNetworkStatus
\* writes the status into the pod the hook returns.
OnPodUpdated(p, getOk, apiOk) ==
    /\ phase = "running"
    /\ UNCHANGED conc
    /\ UNCHANGED disabled
    /\ IF netStatus[p] = NoStatus THEN UpdNoStatus(p)
       ELSE IF ~getOk THEN UpdGetFailed(p)
       ELSE IF p \notin DOMAIN svcs THEN UpdSelfHeal(p, apiOk)
       ELSE IF disabled[p] /\ svcs[p].type = "LoadBalancer"
       THEN UpdSwitchType(p, "ClusterIP", apiOk)
       ELSE IF ~disabled[p] /\ svcs[p].type = "ClusterIP"
       THEN UpdSwitchType(p, "LoadBalancer", apiOk)
       ELSE IF svcs[p].ingress = <<>> THEN UpdNotReady(p)
       ELSE UpdReady(p)

\* A running plugin: Init has completed over an empty cluster.
InitUpd ==
    /\ phase = "running"
    /\ cache = <<>>
    /\ svcs = <<>>
    /\ podAnn = [p \in Pods |-> <<>>]
    /\ live = [lb \in LbIds |-> {}]
    /\ last = NoCall
    /\ ConcIdle
    /\ PodsFresh

\* The life of one pod with two target ports under fixed identity.
UpdPod == "p2"

NextUpd ==
    \/ \E createOk \in BOOLEAN : OnPodAdded(UpdPod, createOk)
    \/ \E getOk, apiOk \in BOOLEAN : OnPodUpdated(UpdPod, getOk, apiOk)
    \/ \E getOk \in BOOLEAN : OnPodDeleted(UpdPod, getOk)
    \/ \E ing \in Ingresses : SvcIngress(UpdPod, ing)
    \/ NetworkToggled(UpdPod)
    \/ SvcDeleted(UpdPod)
    \/ PodRecreated(UpdPod)
    \/ PodReplaced(UpdPod)

SpecUpd == InitUpd /\ [][NextUpd]_vars

\* The hooks on one pod across restarts of the plugin: Init runs again at any
\* state, over the Services as they are then.
NextRestart ==
    \/ \E listOk \in BOOLEAN : PluginInit(listOk)
    \/ \E createOk \in BOOLEAN : OnPodAdded(UpdPod, createOk)
    \/ \E getOk, apiOk \in BOOLEAN : OnPodUpdated(UpdPod, getOk, apiOk)
    \/ \E getOk \in BOOLEAN : OnPodDeleted(UpdPod, getOk)
    \/ NetworkToggled(UpdPod)
    \/ SvcLabelled(UpdPod)
    \/ SvcDeleted(UpdPod)
    \/ PodRecreated(UpdPod)

SpecRestart == InitUpd /\ [][NextRestart]_vars

\* The three hooks on two pods that share one SLB, in any order.
SysTogglePod == "p1"

NextSys ==
    \/ \E p \in Pods, createOk \in BOOLEAN : OnPodAdded(p, createOk)
    \/ \E p \in Pods, getOk, apiOk \in BOOLEAN : OnPodUpdated(p, getOk, apiOk)
    \/ \E p \in Pods, getOk \in BOOLEAN : OnPodDeleted(p, getOk)
    \/ NetworkToggled(SysTogglePod)
    \/ \E n \in Pods : SvcDeleted(n)
    \/ \E p \in Pods : PodRecreated(p)

SpecSys == InitUpd /\ [][NextSys]_vars

Next ==
    \/ \E listOk \in BOOLEAN : PluginInit(listOk)
    \/ \E p \in Pods, createOk \in BOOLEAN : OnPodAdded(p, createOk)
    \/ \E p \in Pods, getOk \in BOOLEAN : OnPodDeleted(p, getOk)
    \/ \E n \in SvcNames : SvcLabelled(n)
    \/ \E n \in SvcNames : SvcDeleted(n)
    \/ \E p \in Pods : PodRecreated(p)

Spec == Init /\ [][Next]_vars

NextCache ==
    \/ \E listOk \in BOOLEAN : PluginInit(listOk)
    \/ \E lbId \in LbIds, num \in 0..MaxCount : Allocate(lbId, num)
    \/ \E lbId \in LbIds, port \in PortUniverse : Deallocate(lbId, port)

\* The Services a bootstrap of the cache alone starts from: none, or up to two
\* Services bound to SLBs by the cloud controller, each with one listener port.
ExtPorts == {MinPort, MaxPort, MaxPort + 1}

ExtSvc(lbId, q) ==
    [lbAnn |-> lbId, label |-> lbId, type |-> "LoadBalancer", ports |-> <<q>>,
     targetPorts |-> <<q>>, protocols |-> <<"TCP">>, owner |-> "none",
     ingress |-> <<>>]

InitCache ==
    /\ phase = "new"
    /\ cache = <<>>
    /\ \/ svcs = <<>>
       \/ \E q \in ExtPorts : svcs = [n \in {"ext"} |-> ExtSvc("lb1", q)]
       \/ svcs = [n \in {"ext", "p1"} |->
                    IF n = "ext" THEN ExtSvc("lb1", MaxPort)
                    ELSE ExtSvc("lb1", MinPort)]
    /\ podAnn = [p \in Pods |-> <<>>]
    /\ live = [lb \in LbIds |-> {}]
    /\ last = NoCall
    /\ ConcIdle
    /\ PodsFresh

SpecCache == InitCache /\ [][NextCache]_vars

\* ------------------------------------------------------------------ workers

\* allocate and deAllocate statement by statement, as two goroutines run them.

\* A worker is between s.mutex.Lock() and the deferred s.mutex.Unlock().
InProgress(w) == pc[w] \in {"lock", "scan", "mark", "store", "unlock"}

InCritical(w) == pc[w] \in {"scan", "mark", "store", "unlock"}

\* A call that starts while another worker's call is in progress overlaps it.
Overlap(w) ==
    [x \in Workers |->
        IF x = w THEN \E o \in Workers \ {w} : InProgress(o)
        ELSE IF InProgress(x) THEN TRUE ELSE ov[x]]

\* The workers' calls are all on one LB, and release ports that allocate can
\* have returned.
ConcLb == "lb1"

\* A worker enters allocate(lbId, num).
WCallAllocate(w, lbId, num) ==
    /\ phase = "running"
    /\ pc[w] \in {"idle", "done"}
    /\ pc' = [pc EXCEPT ![w] = "lock"]
    /\ wk' = [wk EXCEPT ![w] = [NoWork EXCEPT !.op = "allocate", !.lb = lbId,
                                               !.num = num]]
    /\ ov' = Overlap(w)
    /\ UNCHANGED <<phase, cache, svcs, podAnn, live, last, mutex, ipc, netStatus, disabled>>

\* A worker enters deAllocate(lbId, port).
WCallDeallocate(w, lbId, port) ==
    /\ phase = "running"
    /\ pc[w] \in {"idle", "done"}
    /\ pc' = [pc EXCEPT ![w] = "lock"]
    /\ wk' = [wk EXCEPT ![w] = [NoWork EXCEPT !.op = "deAllocate", !.lb = lbId,
                                               !.port = port]]
    /\ ov' = Overlap(w)
    /\ UNCHANGED <<phase, cache, svcs, podAnn, live, last, mutex, ipc, netStatus, disabled>>

\* s.mutex.Lock(): waits until no one holds the mutex.
WLock(w) ==
    /\ phase = "running"
    /\ pc[w] = "lock"
    /\ mutex = ""
    /\ mutex' = w
    /\ pc' = [pc EXCEPT ![w] = IF wk[w].op = "allocate" THEN "scan" ELSE "store"]
    /\ UNCHANGED <<phase, cache, svcs, podAnn, live, last, wk, ov, ipc, netStatus, disabled>>

\* allocate, lines 214-227: the table is made if it is nil, then the range over
\* it picks a free key, or leaves port at its zero value.
WScan(w) ==
    /\ phase = "running"
    /\ pc[w] = "scan"
    /\ LET lbId == wk[w].lb
           c1 == IF lbId \in DOMAIN cache THEN cache ELSE Put(cache, lbId, NewTable)
           free == {q \in DOMAIN c1[lbId] : ~c1[lbId][q]}
           picks == IF free = {} THEN {0} ELSE free
       IN  /\ cache' = c1
           /\ \E q \in picks : wk' = [wk EXCEPT ![w].port = q]
    /\ pc' = [pc EXCEPT ![w] = "mark"]
    /\ UNCHANGED <<phase, svcs, podAnn, live, last, mutex, ov, ipc, netStatus, disabled>>

\* allocate, lines 228-229: mark the port and append it; then the next
\* iteration, or the return.
WMark(w) ==
    /\ phase = "running"
    /\ pc[w] = "mark"
    /\ LET lbId == wk[w].lb
           c1 == IF lbId \in DOMAIN cache THEN cache ELSE Put(cache, lbId, NewTable)
       IN  cache' = Put(c1, lbId, Put(c1[lbId], wk[w].port, TRUE))
    /\ wk' = [wk EXCEPT ![w].ports = Append(@, wk[w].port), ![w].port = 0]
    /\ pc' = [pc EXCEPT ![w] = IF Len(wk[w].ports) + 1 < wk[w].num THEN "scan"
                                ELSE "unlock"]
    /\ UNCHANGED <<phase, svcs, podAnn, live, last, mutex, ov, ipc, netStatus, disabled>>

\* deAllocate, line 238.
WStore(w) ==
    /\ phase = "running"
    /\ pc[w] = "store"
    /\ LET r == deAllocate(cache, wk[w].lb, wk[w].port)
       IN  /\ cache' = r.cache
           /\ phase' = IF r.panic THEN "panicked" ELSE phase
    /\ pc' = [pc EXCEPT ![w] = "unlock"]
    /\ UNCHANGED <<svcs, podAnn, live, last, mutex, wk, ov, ipc, netStatus, disabled>>

\* The deferred s.mutex.Unlock(), and the return.
WUnlock(w) ==
    /\ phase = "running"
    /\ pc[w] = "unlock"
    /\ mutex' = ""
    /\ pc' = [pc EXCEPT ![w] = "done"]
    /\ UNCHANGED <<phase, cache, svcs, podAnn, live, last, wk, ov, ipc, netStatus, disabled>>

\* Init, lines 69-76, before any worker calls in: s.mutex.Lock() with the
\* unlock deferred, minPort and maxPort set, and c.List sent.
WInitLock ==
    /\ phase = "new"
    /\ ipc = "idle"
    /\ mutex = ""
    /\ mutex' = "init"
    /\ ipc' = "list"
    /\ UNCHANGED <<phase, cache, svcs, podAnn, live, last, pc, wk, ov, netStatus, disabled>>

\* Init, lines 76-82: c.List returns. On an error Init returns it; otherwise
\* the cache is rebuilt from the list. The deferred s.mutex.Unlock() runs.
WInitList(listOk) ==
    /\ ipc = "list"
    /\ ipc' = "idle"
    /\ mutex' = ""
    /\ IF listOk
       THEN /\ cache' = initLbCache(SvcListFrom(svcs, 1))
            /\ phase' = "running"
       ELSE /\ cache' = <<>>
            /\ phase' = "new"
    /\ live' = [lb \in LbIds |-> {}]
    /\ last' = [NoCall EXCEPT !.op = "Init", !.apiFail = ~listOk,
                              !.err = IF listOk THEN "none" ELSE "error"]
    /\ UNCHANGED <<svcs, podAnn, pc, wk, ov, netStatus, disabled>>

\* A call to the API server has been sent and has not returned. allocate and
\* deAllocate make none.
ApiInFlight == ipc = "list"

NextConc ==
    \/ WInitLock
    \/ \E listOk \in BOOLEAN : WInitList(listOk)
    \/ \E w \in Workers, num \in 1..RangeSize : WCallAllocate(w, ConcLb, num)
    \/ \E w \in Workers, port \in 0..(MaxPort - 1) :
           WCallDeallocate(w, ConcLb, port)
    \/ \E w \in Workers : WLock(w)
    \/ \E w \in Workers : WScan(w)
    \/ \E w \in Workers : WMark(w)
    \/ \E w \in Workers : WStore(w)
    \/ \E w \in Workers : WUnlock(w)

SpecConc == Init /\ [][NextConc]_vars

\* ------------------------------------------------------------------ claims

InRange(q) == MinPort <= q /\ q < MaxPort

\* The number of ports of [minPort, maxPort) that are free for lbId.
FreeInRange(c, lbId) ==
    Cardinality({q \in MinPort..(MaxPort - 1) :
                    lbId \notin DOMAIN c \/ q \notin DOMAIN c[lbId] \/ ~c[lbId][q]})

Distinct(ports) ==
    \A i, j \in 1..Len(ports) : i # j => ports[i] # ports[j]

\* C1: an allocate call made when fewer than `num` ports of the LB are free in
\* [minPort, maxPort) ends in a distinct exhaustion outcome: it returns no port
\* list at all and marks no port allocated.
C1_ExhaustionIsExplicit ==
    [][(last'.op = "allocate" /\ FreeInRange(cache, last'.lb) < last'.num)
        => /\ last'.err = "exhausted"
           /\ last'.ports = <<>>
           /\ Allocated(cache', last'.lb) = Allocated(cache, last'.lb)]_vars

\* C2: allocate never returns a port that an earlier allocate on that LB
\* returned and that has not been deAllocated since.
C2_NoLivePortReturned ==
    [][last'.op = "allocate"
        => \A i \in 1..Len(last'.ports) : last'.ports[i] \notin live[last'.lb]]_vars

\* C3: every allocate(lbId, n) that succeeds (it returns without an error, and
\* n ports of the range were free when it was called) returns exactly n ports,
\* pairwise distinct, each in [minPort, maxPort).
C3_DistinctInRange ==
    [][(/\ last'.op = "allocate"
        /\ last'.err = "none"
        /\ FreeInRange(cache, last'.lb) >= last'.num)
        => /\ Len(last'.ports) = last'.num
           /\ Distinct(last'.ports)
           /\ \A i \in 1..Len(last'.ports) : InRange(last'.ports[i])]_vars

\* C5: for every LB, the number of ports marked allocated is at most
\* R = maxPort - minPort.
C5_AllocatedAtMostR ==
    \A lb \in DOMAIN cache : Cardinality(Allocated(cache, lb)) <= MaxPort - MinPort

\* C6: every port key recorded in an LB's table lies in [minPort, maxPort).
C6_KeysInRange ==
    \A lb \in DOMAIN cache : \A q \in DOMAIN cache[lb] : InRange(q)

\* The in-range ports carried by the Services that Init takes for exposure
\* objects of lb: labelled with lb and of type LoadBalancer.
ImpliedPorts(lb) ==
    {q \in MinPort..(MaxPort - 1) :
        \E n \in DOMAIN svcs : /\ svcs[n].label = lb
                               /\ svcs[n].type = "LoadBalancer"
                               /\ q \in Range(getPorts(svcs[n]))}

\* C7: right after a bootstrap, the allocated set of each LB is exactly the
\* set of ports p, minPort <= p < maxPort, carried by its exposure objects.
C7_BootstrapExact ==
    (last.op = "Init" /\ last.err = "none")
        => \A lb \in LbIds : Allocated(cache, lb) = ImpliedPorts(lb)

\* C8: deAllocate(lbId, port) with an lbId that has no table, or a port that is
\* no entry of its table, completes without error and leaves the whole cache
\* unchanged.
C8_UnknownDeallocateIsNoop ==
    [][(/\ last'.op = "deAllocate"
        /\ \/ last'.lb \notin DOMAIN cache
           \/ last'.port \notin DOMAIN cache[last'.lb])
        => (last'.err = "none" /\ cache' = cache)]_vars

\* The entry of port q in lb's table: "absent", or its value.
Entry(c, lb, q) ==
    IF lb \in DOMAIN c /\ q \in DOMAIN c[lb] THEN c[lb][q] ELSE "absent"

\* C9: OnPodDeleted for a pod whose Service is found marks free exactly the
\* ports of that Service, under its lbId, leaves every other entry as it was,
\* and each released port can be returned by an allocate that follows.
C9_DeletedReleasesExactly ==
    [][(/\ last'.op = "OnPodDeleted"
        /\ last'.pod \in DOMAIN svcs
        /\ ~last'.apiFail)
        => LET svc == svcs[last'.pod]
               lb == svc.lbAnn
               rel == Range(getPorts(svc))
           IN  /\ last'.err = "none"
               /\ \A q \in rel : Entry(cache', lb, q) = FALSE
               /\ \A l \in LbIds, q \in PortUniverse :
                     (l # lb \/ q \notin rel)
                         => Entry(cache', l, q) = Entry(cache, l, q)
               /\ \A q \in rel :
                     \E r \in allocate(cache', lb, 1) : r.ports = <<q>>]_vars

\* C10: OnPodDeleted for a pod whose Service cannot be looked up (it is absent,
\* or the Get call fails) returns an ApiCallError and leaves the cache
\* unchanged: nothing the pod held is released.
C10_FailedLookupReleasesNothing ==
    [][(/\ last'.op = "OnPodDeleted"
        /\ (last'.pod \notin DOMAIN svcs \/ last'.apiFail))
        => (last'.err = "ApiCallError" /\ cache' = cache)]_vars

\* C10's case: the Service of a pod that was given ports is gone, OnPodDeleted
\* has failed, and the pod's ports are still marked allocated.
C10_Witness ==
    /\ last.op = "OnPodDeleted"
    /\ last.err = "ApiCallError"
    /\ last.pod \in Pods
    /\ last.pod \notin DOMAIN svcs
    /\ podAnn[last.pod] # <<>>
    /\ Range(podAnn[last.pod]) \subseteq Allocated(cache, PodLb(last.pod))

\* Only one worker at a time is between Lock and Unlock.
MutualExclusion ==
    \A a, b \in Workers : (a # b /\ InCritical(a)) => ~InCritical(b)

\* C4: two allocate calls on the same LB that ran concurrently never both
\* receive the same port, and no call is inside its scan-and-mark while
\* another call's is under way.
C4_ConcurrentAllocateAtomic ==
    /\ MutualExclusion
    /\ \A a, b \in Workers :
          (/\ a # b
           /\ pc[a] = "done" /\ pc[b] = "done"
           /\ ov[a] /\ ov[b]
           /\ wk[a].op = "allocate" /\ wk[b].op = "allocate"
           /\ wk[a].lb = wk[b].lb)
              => Range(wk[a].ports) \cap Range(wk[b].ports) = {}

\* C11: an OnPodUpdated call on a pod with no NetworkStatus recorded writes
\* NotReady and returns; it makes no call on Services (no Get, Create, Update
\* or Delete) and leaves the Services and the cache as they were.
C11_NoStatusTouchesNothing ==
    [][(last'.op = "OnPodUpdated" /\ netStatus[last'.pod] = NoStatus)
       => /\ netStatus'[last'.pod] = NotReadyStatus
          /\ last'.calls = {}
          /\ last'.err = "none"
          /\ svcs' = svcs
          /\ cache' = cache]_vars

\* The call was made on a pod without status whose Service exists and whose
\* ports are in the cache.
C11_Witness ==
    /\ last.op = "OnPodUpdated"
    /\ last.calls = {}
    /\ netStatus[UpdPod] = NotReadyStatus
    /\ UpdPod \in DOMAIN svcs
    /\ Allocated(cache, PodLb(UpdPod)) # {}

\* The Service's type agrees with the pod's networkDisabled flag.
TypeAgrees(p) ==
    /\ ~(disabled[p] /\ svcs[p].type = "LoadBalancer")
    /\ ~(~disabled[p] /\ svcs[p].type = "ClusterIP")

\* C12, as stated: whenever OnPodUpdated is called on a pod whose Service
\* exists and has no ingress, and its API calls go through, the status
\* recorded after the call is NotReady, whether or not the Service's type
\* agrees with the networkDisabled flag.
C12_NoEndpointIsNotReady ==
    [][(/\ last'.op = "OnPodUpdated"
        /\ ~last'.apiFail
        /\ last'.pod \in DOMAIN svcs
        /\ svcs[last'.pod].ingress = <<>>)
       => netStatus'[last'.pod].state = "NotReady"]_vars

\* C12, amended: whenever OnPodUpdated is called on a pod whose Service exists
\* and has no ingress, its API calls go through, and the pod has no status yet
\* or the Service's type agrees with the networkDisabled flag, the status
\* recorded after the call is NotReady.
C12_NoEndpointIsNotReadyWhenTypeAgrees ==
    [][(/\ last'.op = "OnPodUpdated"
        /\ ~last'.apiFail
        /\ last'.pod \in DOMAIN svcs
        /\ svcs[last'.pod].ingress = <<>>
        /\ netStatus[last'.pod] = NoStatus \/ TypeAgrees(last'.pod))
       => netStatus'[last'.pod].state = "NotReady"]_vars

\* A pod that was Ready (its addresses are still recorded) has been set to
\* NotReady by a call that found its Service without ingress.
C12_Witness ==
    /\ last.op = "OnPodUpdated"
    /\ last.calls = {"Get"}
    /\ ~last.apiFail
    /\ UpdPod \in DOMAIN svcs
    /\ svcs[UpdPod].ingress = <<>>
    /\ netStatus[UpdPod].state = "NotReady"
    /\ netStatus[UpdPod].external # <<>>

\* C13: an OnPodUpdated call on a pod with a recorded status, whose Service
\* exists with a type agreeing with the networkDisabled flag and at least one
\* ingress, records Ready with one internal and one external address per port
\* entry of the Service, in the entries' order: the internal one is the pod's
\* IP with the entry's target port and protocol, the external one is the
\* first ingress IP with the entry's Service port and the same protocol.
C13_ReadyAddressPairs ==
    [][(/\ last'.op = "OnPodUpdated"
        /\ ~last'.apiFail
        /\ netStatus[last'.pod] # NoStatus
        /\ last'.pod \in DOMAIN svcs
        /\ TypeAgrees(last'.pod)
        /\ svcs[last'.pod].ingress # <<>>)
       => LET p == last'.pod
              svc == svcs[p]
              st == netStatus'[p]
          IN  /\ st.state = "Ready"
              /\ Len(st.internal) = Len(svc.ports)
              /\ Len(st.external) = Len(svc.ports)
              /\ \A i \in 1..Len(svc.ports) :
                    /\ st.internal[i].ip = PodIP(p)
                    /\ st.internal[i].port = svc.targetPorts[i]
                    /\ st.internal[i].protocol = svc.protocols[i]
                    /\ st.external[i].ip = Head(svc.ingress)
                    /\ st.external[i].port = svc.ports[i]
                    /\ st.external[i].protocol = svc.protocols[i]]_vars

\* A pod has been set Ready from a Service with two port entries of different
\* ports and protocols and two ingress addresses.
C13_Witness ==
    /\ last.op = "OnPodUpdated"
    /\ UpdPod \in DOMAIN svcs
    /\ Len(svcs[UpdPod].ingress) > 1
    /\ netStatus[UpdPod].state = "Ready"
    /\ Len(netStatus[UpdPod].external) > 1
    /\ netStatus[UpdPod].external[1].port # netStatus[UpdPod].external[2].port
    /\ netStatus[UpdPod].external[1].ip = Head(svcs[UpdPod].ingress)

\* C14: under fixed identity the ports recorded in the pod's annotation stay
\* marked allocated in the cache across the replacement of the pod: an
\* OnPodDeleted call on the old pod, whose recorded ports are in range and
\* all marked, leaves them marked, so that no allocate for another pod can return them
\* before OnPodAdded runs for the replacement.
C14_FixedPortsStayAllocated ==
    [][(/\ last'.op = "OnPodDeleted"
        /\ last'.err = "none"
        /\ IsFixed(last'.pod)
        /\ podAnn[last'.pod] # <<>>
        /\ \A q \in Range(podAnn[last'.pod]) : InRange(q)
        /\ Range(podAnn[last'.pod]) \subseteq Allocated(cache, PodLb(last'.pod)))
       => Range(podAnn'[last'.pod]) \subseteq Allocated(cache', PodLb(last'.pod))]_vars

\* C15, as stated: Ready is terminal. Once a pod's recorded status is Ready, no
\* OnPodUpdated call on that pod records NotReady, whatever has happened to
\* the Service's ingress or type since.
C15_ReadyIsTerminal ==
    [][(last'.op = "OnPodUpdated" /\ netStatus[last'.pod].state = "Ready")
       => netStatus'[last'.pod].state # "NotReady"]_vars

\* C15, amended: an OnPodUpdated call on a pod whose recorded status is Ready
\* records NotReady exactly when its lookup goes through and finds the Service
\* with a type that agrees with the networkDisabled flag and with no ingress;
\* every other call (ingress present, type switched, Service missing, lookup
\* failed) leaves the status Ready.
C15_ReadyUntilEndpointLost ==
    [][(last'.op = "OnPodUpdated" /\ netStatus[last'.pod].state = "Ready")
       => LET p == last'.pod
              lost == /\ ~last'.apiFail
                      /\ p \in DOMAIN svcs
                      /\ TypeAgrees(p)
                      /\ svcs[p].ingress = <<>>
          IN  netStatus'[p].state = IF lost THEN "NotReady" ELSE "Ready"]_vars

\* A call on a Ready pod whose Service had lost its ingress only switched the
\* Service's type: the pod is still Ready.
C15_Witness ==
    /\ last.op = "OnPodUpdated"
    /\ last.calls = {"Get", "Update"}
    /\ ~last.apiFail
    /\ svcs[UpdPod].ingress = <<>>
    /\ netStatus[UpdPod].state = "Ready"

\* C16: no call to the API server is in flight while the cache's mutex is
\* held, in Init as in allocate and deAllocate.
C16_NoApiCallUnderLock == ~(mutex # "" /\ ApiInFlight)

\* C17: an OnPodUpdated call on a pod with a recorded status whose Service
\* exists with a type that disagrees with the networkDisabled flag switches
\* the type to the one the flag asks for (when its API calls go through) and
\* returns: the recorded NetworkStatus, the Service apart from its type, its
\* ports in particular, and the cache are as they were.
C17_SwitchTypeOnly ==
    [][(/\ last'.op = "OnPodUpdated"
        /\ netStatus[last'.pod] # NoStatus
        /\ last'.pod \in DOMAIN svcs
        /\ ~TypeAgrees(last'.pod))
       => LET p == last'.pod
              want == IF disabled[p] THEN "ClusterIP" ELSE "LoadBalancer"
          IN  /\ netStatus' = netStatus
              /\ cache' = cache
              /\ podAnn' = podAnn
              /\ p \in DOMAIN svcs'
              /\ svcs'[p].ports = svcs[p].ports
              /\ svcs' = IF last'.apiFail THEN svcs
                         ELSE [svcs EXCEPT ![p].type = want]]_vars

\* A call has switched the Service of a Ready pod to ClusterIP; the pod is
\* still Ready and its ports are still marked in the cache.
C17_Witness ==
    /\ last.op = "OnPodUpdated"
    /\ last.calls = {"Get", "Update"}
    /\ ~last.apiFail
    /\ disabled[UpdPod]
    /\ svcs[UpdPod].type = "ClusterIP"
    /\ netStatus[UpdPod].state = "Ready"
    /\ Range(svcs[UpdPod].ports) \subseteq Allocated(cache, PodLb(UpdPod))

\* C18: at every state the hooks can reach, no two existing Services bound to
\* the same SLB carry the same port, and every port carried by an existing
\* Service is marked allocated in the cache for that SLB, ports taken from a
\* pod's annotation included.
C18_SystemExclusivity ==
    /\ \A n, m \in DOMAIN svcs :
          (n # m /\ svcs[n].lbAnn = svcs[m].lbAnn)
            => Range(svcs[n].ports) \cap Range(svcs[m].ports) = {}
    /\ \A n \in DOMAIN svcs :
          Range(svcs[n].ports) \subseteq Allocated(cache, svcs[n].lbAnn)

\* C19: a retry leaks no port. When an OnPodAdded or self-healing OnPodUpdated
\* call has allocated ports and its c.Create failed, so that the ports it
\* allocated are the only ones marked for the SLB, and the host calls the hook
\* again for the same pod and the call succeeds, the ports marked allocated
\* for the SLB are exactly the ports of the Service created.
C19_RetryDoesNotLeak ==
    [][(/\ last.op \in {"OnPodAdded", "OnPodUpdated"}
        /\ last.allocCalled
        /\ last.err = "ApiCallError"
        /\ Allocated(cache, last.lb) = Range(last.ports)
        /\ last'.op \in {"OnPodAdded", "OnPodUpdated"}
        /\ last'.pod = last.pod
        /\ "Create" \in last'.calls
        /\ last'.err = "none")
       => Allocated(cache', last.lb) = Range(svcs'[last.pod].ports)]_vars

\* C20: Init run again at any state the hooks can reach (a restart) leaves
\* every in-range port of every existing Service that createSvc made, and
\* that carries the SLB's label, marked allocated for its SLB, Services that
\* OnPodUpdated switched to ClusterIP included; an allocate after the restart
\* then cannot return a port an existing Service carries.
C20_RestartKeepsServicePorts ==
    (last.op = "Init" /\ last.err = "none")
      => \A n \in DOMAIN svcs :
            svcs[n].label = svcs[n].lbAnn
              => \A q \in Range(svcs[n].ports) :
                    InRange(q) => q \in Allocated(cache, svcs[n].lbAnn)

====
